---- MODULE Spec2Model ----
(***************************************************************************)
(* goqu-linq: the Unit of Work, the Repository's routing of statements to  *)
(* the direct database handle or to the Unit of Work's transaction handle, *)
(* and the database those handles talk to.                                 *)
(*                                                                         *)
(* One application thread drives one UnitOfWork u (NewUnitOfWork) and the  *)
(* repositories made by NewRepository / WithUnitOfWork.  While             *)
(* RunInTransaction is executing its callback fn (pc = "fn") the same      *)
(* operations are the steps fn takes.                                      *)
(***************************************************************************)
EXTENDS Integers, Sequences, FiniteSets, TLC

\* ------------------------------------------------------------- bounds
MaxTx == 2          \* transactions db.Begin() hands out in one behaviour
MaxStmts == 2       \* mutation statements that reach a handle
MaxEntities == 2    \* entities given to BatchInsert / BatchUpdate
MaxCalls == 1       \* Commit/Rollback calls fn makes on RunInTransaction's handle
MaxFieldCount == 3  \* columns of an entity type, besides the counts named below
MaxBudget == 12     \* small parameter budgets, besides the budgets named below
MaxExtraArgs == 1   \* arguments of opt.AdditionalWhere
MaxRows == 3        \* rows of the table a query runs on, besides the tables named below
MaxPage == 3        \* pages asked of ToPagedList
MaxPageSize == 2    \* page sizes, besides the size named below
MaxSpecLen == 4     \* pieces of an ordering spec, besides the spec named below

\* ------------------------------------------------------------- program constants
ParamBudget == 16384
DefaultBatchSize == 1000

\* TestEntity's persisted columns (its db tags), in declaration order
EntityFields == <<"id", "name", "status">>

\* ------------------------------------------------------------- values
Nil == "nil"
FnErrs == {"FnErr", "ExecErr"}          \* errors fn may return
PanicValues == {"boom", "nilderef"}     \* values fn may panic with
BatchSizes == {1, DefaultBatchSize}     \* configured opt.BatchSize
KeyFields == {"", "id"}                 \* configured opt.KeyField

VARIABLES
    uowTx,      \* u.tx: 0 is the nil pointer, t >= 1 the handle of transaction t
    nextTx,     \* transactions begun so far on the database
    txState,    \* database side of each transaction handle
    txWrites,   \* statements executed inside each transaction
    visible,    \* statements whose effect is visible in the database
    nStmts,     \* statements executed so far (the next one gets nStmts + 1)
    repos,      \* the repository values the application holds
    pc,         \* "idle": the application runs; "fn": RunInTransaction is inside fn
    rit,        \* the current / last RunInTransaction call
    lastCall,   \* the last operation called and what it did
    txLog,      \* with several callers: who began each transaction and the
                \* Commit / Rollback calls it got
    DefaultBatchInsertOption,   \* the object the package variable points to
    DefaultBatchUpdateOption,   \* the object the package variable points to
    batch       \* the BatchInsert / BatchUpdate call that is running or has
                \* ended, with the option object of its caller

vars == <<uowTx, nextTx, txState, txWrites, visible, nStmts, repos,
          pc, rit, lastCall, txLog,
          DefaultBatchInsertOption, DefaultBatchUpdateOption, batch>>

optVars == <<DefaultBatchInsertOption, DefaultBatchUpdateOption, batch>>

dbVars == <<nextTx, txState, txWrites, visible, nStmts>>

Txs == 1..MaxTx

\* ------------------------------------------------------------- handles
DirectHandle == [kind |-> "db", tx |-> 0]
TxHandle(t) == [kind |-> "tx", tx |-> t]

\* u.GetTx()
GetTx == uowTx

\* Unattached: Begin has not succeeded; Open: u.tx is a live transaction;
\* Closed: u.tx has been committed or rolled back.
UowPhase ==
    IF uowTx = 0 THEN "Unattached"
    ELSE IF txState[uowTx] = "open" THEN "Open" ELSE "Closed"

\* A Repository value: its db handle, table, dialect, dialect type and uow
\* field ("nil": none, "u": the UnitOfWork).  No method writes a field of a
\* Repository.
NoRepo == [db |-> "", table |-> "", dialect |-> "", dbType |-> "", uow |-> "nil"]

\* No BatchInsert / BatchUpdate call yet.  A call is at "loop" while its window
\* loop runs, then "returned" or "panicked"; opt is "nil" or "own" (a pointer
\* to the caller's option object, whose value was given at the call and is own
\* now).
NoBatch ==
    [op |-> "none", at |-> "idle", n |-> 0, fieldCount |-> 0, opt |-> "nil",
     given |-> [BatchSize |-> 0], own |-> [BatchSize |-> 0],
     i |-> 0, stmts |-> 0, result |-> Nil]

NoCall ==
    [op |-> "none", by |-> "app", repo |-> NoRepo, phase |-> "Unattached",
     result |-> Nil, stmts |-> <<>>, opened |-> 0, touched |-> 0, seen |-> {}]

NoRit ==
    [tx |-> 0, fn |-> "none", val |-> "none", steps |-> <<>>, ret |-> "none", panicOut |-> "none",
     commitRet |-> "none", rollbackRet |-> "none", retired |-> 0,
     stmt0 |-> 0, plain |-> TRUE]

By == IF pc = "fn" THEN "fn" ELSE "app"

\* A transaction nobody has begun.
NoTxLog == [by |-> "none", retires |-> 0, ended |-> FALSE]

Call(op, r, result, stmts) ==
    [op |-> op, by |-> By, repo |-> r, phase |-> UowPhase,
     result |-> result, stmts |-> stmts, opened |-> 0, touched |-> 0, seen |-> {}]

\* ------------------------------------------------------------- construction
\* The goqu dialect NewRepository picks for dbType: "mysql" for StarRocks and
\* for everything else.
DialectOf(dbType) == IF dbType = "starrocks" THEN "mysql" ELSE "mysql"

\* NewRepository(db, table, dbType), db being the application's one DBLogger:
\* no Unit of Work attached.
NewRepository(table, dbType) ==
    [db |-> "db", table |-> table, dialect |-> DialectOf(dbType),
     dbType |-> dbType, uow |-> "nil"]

Init ==
    /\ uowTx = 0                                   \* NewUnitOfWork: tx is nil
    /\ nextTx = 0
    /\ txState = [t \in Txs |-> "unused"]
    /\ txWrites = [t \in Txs |-> {}]
    /\ visible = {}
    /\ nStmts = 0
    /\ repos = {NewRepository("test_table", "mysql")}
    /\ pc = "idle"
    /\ rit = NoRit
    /\ lastCall = NoCall
    /\ txLog = [t \in Txs |-> NoTxLog]
    /\ DefaultBatchInsertOption = [BatchSize |-> DefaultBatchSize, UseNamedExec |-> FALSE]
    /\ DefaultBatchUpdateOption =
           [BatchSize |-> DefaultBatchSize, UpdateFields |-> <<>>, KeyField |-> ""]
    /\ batch = NoBatch

\* ------------------------------------------------------------- the database
\* tx.Commit() / tx.Rollback() on a handle in database state s: a live
\* transaction is ended either way (a failed Commit or Rollback leaves nothing
\* visible); a handle that is already done answers ErrTxDone and is not changed.
RetireOutcomes(kind, s) ==
    IF s = "open"
    THEN {[res |-> Nil, st |-> "done", committed |-> kind = "Commit"],
          [res |-> kind \o "Err", st |-> "done", committed |-> FALSE]}
    ELSE {[res |-> "ErrTxDone", st |-> s, committed |-> FALSE]}

\* The runs of a sequence ks of Commit / Rollback calls on one handle that is in
\* state s: the handle's final state and each call's result.
RECURSIVE RetireRuns(_, _)
RetireRuns(ks, s) ==
    IF ks = <<>> THEN {[st |-> s, res |-> <<>>, committed |-> FALSE]}
    ELSE UNION {{[st |-> r.st, res |-> <<o.res>> \o r.res,
                  committed |-> o.committed \/ r.committed] :
                    r \in RetireRuns(Tail(ks), o.st)} :
                o \in RetireOutcomes(Head(ks), s)}

\* The calls ks reach handle t and end as run says: a commit makes the
\* transaction's statements visible, and a transaction that is done holds none.
ApplyRetires(t, ks, run) ==
    /\ txState' = [txState EXCEPT ![t] = run.st]
    /\ visible' = IF run.committed THEN visible \cup txWrites[t] ELSE visible
    /\ txWrites' = IF run.st # "open" THEN [txWrites EXCEPT ![t] = {}] ELSE txWrites
    /\ UNCHANGED <<nextTx, nStmts>>

\* The Commit / Rollback calls that have reached the handle RunInTransaction
\* began, counted while RunInTransaction runs.
Counted(t, ks) ==
    IF pc = "fn" /\ t = rit.tx
    THEN [rit EXCEPT !.retired = @ + Len(ks)]
    ELSE rit

\* rit describes RunInTransaction while it runs and when it has just returned.
Forget == IF pc = "fn" THEN rit ELSE NoRit

\* ------------------------------------------------------------- UnitOfWork
\* u.Begin(): db.Begin() fails, or hands out a new transaction that replaces u.tx.
BeginTx(ok) ==
    IF ok
    THEN /\ nextTx < MaxTx
         /\ nextTx' = nextTx + 1
         /\ txState' = [txState EXCEPT ![nextTx + 1] = "open"]
         /\ uowTx' = nextTx + 1
         /\ UNCHANGED <<txWrites, visible, nStmts>>
    ELSE UNCHANGED <<uowTx, dbVars>>

BeginResult(ok) == IF ok THEN Nil ELSE "BeginErr"

Begin ==
    /\ \E ok \in BOOLEAN :
          /\ BeginTx(ok)
          /\ lastCall' = [Call("Begin", NoRepo, BeginResult(ok), <<>>) EXCEPT
                            !.opened = IF ok THEN nextTx + 1 ELSE 0]
    /\ rit' = IF pc = "fn" THEN [rit EXCEPT !.plain = FALSE] ELSE NoRit
    /\ UNCHANGED <<repos, pc, txLog, optVars>>

\* u.Commit() and u.Rollback(): the call goes to u.tx whatever its state; on a
\* nil u.tx it is a nil-pointer dereference (a panic in the caller).  Inside fn
\* u.tx is never nil, and a panic of fn is the step FnPanic.
RetireCall(kind) ==
    IF uowTx = 0
    THEN /\ pc = "idle"
         /\ lastCall' = Call(kind, NoRepo, "panic:nilderef", <<>>)
         /\ rit' = NoRit
         /\ UNCHANGED <<uowTx, dbVars, repos, pc, txLog, optVars>>
    ELSE /\ pc = "fn" /\ uowTx = rit.tx => rit.retired < MaxCalls
         /\ \E run \in RetireRuns(<<kind>>, txState[uowTx]) :
               /\ ApplyRetires(uowTx, <<kind>>, run)
               /\ lastCall' = [Call(kind, NoRepo, run.res[1], <<>>) EXCEPT
                                 !.touched = uowTx]
         /\ rit' = IF pc = "fn"
                   THEN [Counted(uowTx, <<kind>>) EXCEPT !.plain = FALSE]
                   ELSE NoRit
         /\ UNCHANGED <<uowTx, repos, pc, txLog, optVars>>

Commit == RetireCall("Commit")

Rollback == RetireCall("Rollback")

\* ------------------------------------------------------------- RunInTransaction
\* What fn did: returned nil, returned an error, or panicked.
FnOutcomes ==
    {[kind |-> "nil", val |-> Nil]}
        \cup {[kind |-> "err", val |-> e] : e \in FnErrs}
        \cup {[kind |-> "panic", val |-> v] : v \in PanicValues}

\* AfterFn without the deferred recover: a panic of fn goes straight up.
AfterFnUnrecovered(o) ==
    CASE o.kind = "panic" -> <<"panic">>
      [] o.kind = "err"   -> <<"Rollback", "return">>
      [] OTHER            -> <<"Commit", "return">>

\* AfterFn rolling back on every path.
AfterFnNeverCommits(o) ==
    CASE o.kind = "panic" -> <<"Rollback", "panic">>
      [] o.kind = "err"   -> <<"Rollback", "return">>
      [] OTHER            -> <<"Rollback", "return">>

\* The steps RunInTransaction takes once fn has ended with outcome o:
\* the deferred recover rolls back and panics again; an error rolls back and
\* returns; nil commits and returns.
AfterFn(o) ==
    CASE o.kind = "panic" -> <<"Rollback", "panic">>
      [] o.kind = "err"   -> <<"Rollback", "return">>
      [] OTHER            -> <<"Commit", "return">>

\* fmt.Errorf("...: %v, ...: %w", err, rollbackErr)
Combine(e, rollbackErr) == e \o "+" \o rollbackErr

\* FnErrorReturn losing fn's error when the rollback fails too.
FnErrorReturnRollbackOnly(e, rollbackErr) ==
    IF rollbackErr # Nil THEN rollbackErr ELSE e

\* The error branch's return value.
FnErrorReturn(e, rollbackErr) ==
    IF rollbackErr # Nil THEN Combine(e, rollbackErr) ELSE e

\* The value the deferred function panics with, having recovered r.
RePanic(r) == r

IsRetire(k) == k \in {"Commit", "Rollback"}

\* The result of the first call of kind among the retire calls ks, "none" if
\* there is none.
ResultOf(kind, ks, res) ==
    IF \E i \in 1..Len(ks) : ks[i] = kind
    THEN res[CHOOSE i \in 1..Len(ks) :
                 ks[i] = kind /\ \A j \in 1..(i - 1) : ks[j] # kind]
    ELSE "none"

\* RunInTransaction up to the call of fn.
RunInTransaction ==
    /\ pc = "idle"
    /\ \E ok \in BOOLEAN :
          /\ BeginTx(ok)
          /\ IF ok
             THEN /\ pc' = "fn"
                  /\ rit' = [NoRit EXCEPT !.tx = nextTx + 1, !.fn = "running",
                                          !.steps = <<"Begin">>, !.stmt0 = nStmts]
                  /\ lastCall' = [Call("Begin", NoRepo, Nil, <<>>) EXCEPT
                                    !.by = "rit", !.opened = nextTx + 1]
             ELSE /\ pc' = "idle"
                  /\ rit' = [NoRit EXCEPT !.steps = <<"Begin", "return">>,
                                          !.ret = BeginResult(ok)]
                  /\ lastCall' = Call("RunInTransaction", NoRepo, BeginResult(ok), <<>>)
    /\ UNCHANGED <<repos, txLog, optVars>>

\* RunInTransaction from fn's end (outcome o) to its own.
FnEnds(o) ==
    /\ pc = "fn"
    /\ LET steps == AfterFn(o)
           ks == SelectSeq(steps, IsRetire)
       IN \E run \in RetireRuns(ks, txState[uowTx]) :
            LET rb == ResultOf("Rollback", ks, run.res)
                cm == ResultOf("Commit", ks, run.res)
                panics == steps # <<>> /\ steps[Len(steps)] = "panic"
                ret == CASE panics -> "none"
                         [] o.kind = "err" -> FnErrorReturn(o.val, rb)
                         [] OTHER -> cm
                out == IF panics THEN RePanic(o.val) ELSE "none"
            IN /\ ApplyRetires(uowTx, ks, run)
               /\ rit' = [Counted(uowTx, ks) EXCEPT
                                     !.fn = o.kind, !.val = o.val, !.steps = @ \o <<"fn">> \o steps,
                                     !.ret = ret, !.panicOut = out,
                                     !.commitRet = cm, !.rollbackRet = rb]
               /\ lastCall' = [Call("RunInTransaction", NoRepo,
                                    IF panics THEN "panic:" \o out ELSE ret, <<>>)
                                 EXCEPT !.by = "app", !.touched = uowTx]
    /\ pc' = "idle"
    /\ UNCHANGED <<uowTx, repos, txLog, optVars>>

FnReturn == \E o \in {x \in FnOutcomes : x.kind # "panic"} : FnEnds(o)

FnPanic == \E o \in {x \in FnOutcomes : x.kind = "panic"} : FnEnds(o)

\* ------------------------------------------------------------- Repository
Attached(r) == r.uow # "nil"

\* The repository r.WithUnitOfWork(uow) returns: r's db, table, dialect and
\* dialect type, and uow.
WithUow(r, uow) ==
    [db |-> r.db, table |-> r.table, dialect |-> r.dialect,
     dbType |-> r.dbType, uow |-> uow]

\* AfterWithUnitOfWork attaching uow to the receiver itself and returning it.
AfterWithUnitOfWorkInPlace(rs, r, uow) == (rs \ {r}) \cup {WithUow(r, uow)}

\* The repositories rs the application holds, after r.WithUnitOfWork(uow): the
\* new one is allocated next to r, and r is not written.
AfterWithUnitOfWork(rs, r, uow) == rs \cup {WithUow(r, uow)}

\* r.WithUnitOfWork(u)
WithUnitOfWork ==
    /\ \E r \in repos :
          /\ repos' = AfterWithUnitOfWork(repos, r, "u")
          /\ lastCall' = Call("WithUnitOfWork", r, Nil, <<>>)
    /\ rit' = Forget
    /\ UNCHANGED <<uowTx, dbVars, pc, txLog, optVars>>

\* handle.Exec(sql, args...): what the handle can answer.  A nil *Tx is a
\* nil-pointer dereference; a transaction that is done answers ErrTxDone.
ExecOutcomes(h) ==
    IF h.kind = "db" THEN {"ok", "ExecErr"}
    ELSE IF h.tx = 0 THEN {"panic:nilderef"}
    ELSE IF txState[h.tx] = "open" THEN {"ok", "ExecErr"}
    ELSE {"ErrTxDone"}

\* The rows a query executed on handle h can see.
RowsSeenOn(h) ==
    IF h.kind = "tx" /\ h.tx # 0 /\ txState[h.tx] = "open"
    THEN visible \cup txWrites[h.tx] ELSE visible

\* k statements have been executed on handle h and succeeded.
Executed(h, k) ==
    LET ids == (nStmts + 1)..(nStmts + k)
    IN /\ nStmts' = nStmts + k
       /\ IF h.kind = "db"
          THEN visible' = visible \cup ids /\ UNCHANGED txWrites
          ELSE /\ txWrites' = IF k = 0 THEN txWrites
                              ELSE [txWrites EXCEPT ![h.tx] = @ \cup ids]
               /\ UNCHANGED visible
       /\ UNCHANGED <<uowTx, nextTx, txState, repos, pc>>

\* What RunInTransaction's fn has done so far: rit.plain says that fn has only
\* called mutation methods, and only of repositories with u attached.  The
\* statements fn has executed are those numbered above rit.stmt0.
FnUsed(r) ==
    IF pc = "fn" THEN [rit EXCEPT !.plain = @ /\ Attached(r)] ELSE NoRit

FnWrites == (rit.stmt0 + 1)..nStmts

\* A method of repository r that renders one statement and executes it on h.
\* query.ToSQL() may fail, and then nothing is executed.
OneStatement(op, r, h) ==
    /\ nStmts < MaxStmts
    /\ UNCHANGED <<txLog, optVars>>
    /\ \/ /\ lastCall' = Call(op, r, "SqlErr", <<>>)
          /\ rit' = FnUsed(r)
          /\ UNCHANGED <<uowTx, dbVars, repos, pc>>
       \/ \E st \in ExecOutcomes(h) :
             /\ st = "panic:nilderef" => pc = "idle"
             /\ lastCall' = Call(op, r, IF st = "ok" THEN Nil ELSE st,
                                 <<[handle |-> h, status |-> st, from |-> 0, to |-> 1]>>)
             /\ rit' = FnUsed(r)
             /\ Executed(h, IF st = "ok" THEN 1 ELSE 0)

\* The handle each ...WithTx method executes on.
CreateWithTxHandle(r) ==
    IF Attached(r) THEN TxHandle(GetTx) ELSE DirectHandle

UpdateWithTxHandle(r) ==
    IF Attached(r) THEN TxHandle(GetTx) ELSE DirectHandle

UpdateByConditionWithTxHandle(r) ==
    IF Attached(r) THEN TxHandle(GetTx) ELSE DirectHandle

UpdateFieldsByConditionWithTxHandle(r) ==
    IF Attached(r) THEN TxHandle(GetTx) ELSE DirectHandle

BatchDeleteWithTxHandle(r) ==
    IF Attached(r) THEN TxHandle(GetTx) ELSE DirectHandle

\* The handle each mutation method executes on.
CreateHandle(r) ==
    IF Attached(r) THEN CreateWithTxHandle(r) ELSE DirectHandle

UpdateHandle(r) ==
    IF Attached(r) THEN UpdateWithTxHandle(r) ELSE DirectHandle

UpdateByConditionHandle(r) ==
    IF Attached(r) THEN UpdateByConditionWithTxHandle(r) ELSE DirectHandle

UpdateFieldsByConditionHandle(r) ==
    IF Attached(r) THEN UpdateFieldsByConditionWithTxHandle(r) ELSE DirectHandle

\* BatchCreateHandle ignoring the Unit of Work.
BatchCreateHandleDirect(r) == DirectHandle

BatchCreateHandle(r) ==
    IF Attached(r) THEN TxHandle(GetTx) ELSE DirectHandle

BatchDeleteHandle(r) ==
    IF Attached(r) THEN BatchDeleteWithTxHandle(r) ELSE DirectHandle

Create == \E r \in repos : OneStatement("Create", r, CreateHandle(r))

Update == \E r \in repos : OneStatement("Update", r, UpdateHandle(r))

UpdateByCondition ==
    \E r \in repos :
        OneStatement("UpdateByCondition", r, UpdateByConditionHandle(r))

UpdateFieldsByCondition ==
    \E r \in repos :
        OneStatement("UpdateFieldsByCondition", r, UpdateFieldsByConditionHandle(r))

BatchCreate == \E r \in repos : OneStatement("BatchCreate", r, BatchCreateHandle(r))

BatchDelete == \E r \in repos : OneStatement("BatchDelete", r, BatchDeleteHandle(r))

\* ------------------------------------------------------------- batch methods
Min(a, b) == IF a < b THEN a ELSE b

\* Go's int on a 32-bit build (GOARCH=386, arm); on a 64-bit build the same
\* arithmetic wraps at 2^63.
MaxInt == 2147483647

HalfWord == 65536

\* a * b as an int, for 0 <= a <= MaxInt and 0 <= b < 2^15: the product modulo
\* 2^32, read as a signed value (computed in 16-bit halves).
MulInt(a, b) ==
    LET lo == (a % HalfWord) * b
        hi == ((a \div HalfWord) * b + lo \div HalfWord) % HalfWord
    IN IF hi >= HalfWord \div 2
       THEN (hi - HalfWord) * HalfWord + (lo % HalfWord)
       ELSE hi * HalfWord + (lo % HalfWord)

\* a / b as an int, b > 0: Go's division truncates toward zero.
DivInt(a, b) == IF a >= 0 THEN a \div b ELSE (a + b - 1) \div b

\* calculateSafeBatchSize dividing before it multiplies.
calculateSafeBatchSizeDivFirst(fieldCount, maxParams) ==
    DivInt(MulInt(DivInt(maxParams, 100), 80), fieldCount)

\* safeMaxParams := maxParams * 80 / 100; return safeMaxParams / fieldCount
calculateSafeBatchSize(fieldCount, maxParams) ==
    DivInt(DivInt(MulInt(maxParams, 80), 100), fieldCount)

\* EffectiveBatchSize without the clamp to the safe size.
EffectiveBatchSizeConfigured(configured, fieldCount) == configured

\* opt.BatchSize after "if opt.BatchSize > safeBatchSize { opt.BatchSize = safeBatchSize }"
EffectiveBatchSize(configured, fieldCount) ==
    IF configured > calculateSafeBatchSize(fieldCount, ParamBudget)
    THEN calculateSafeBatchSize(fieldCount, ParamBudget)
    ELSE configured

\* WindowsFrom without "if end > len(entities) { end = len(entities) }".
RECURSIVE WindowsFromUnclamped(_, _, _)
WindowsFromUnclamped(i, n, b) ==
    IF i >= n THEN <<>>
    ELSE <<[from |-> i, to |-> i + b]>> \o WindowsFromUnclamped(i + b, n, b)

\* The windows [from, to) of "for i := 0; i < n; i += b", b >= 1.
RECURSIVE WindowsFrom(_, _, _)
WindowsFrom(i, n, b) ==
    IF i >= n THEN <<>>
    ELSE <<[from |-> i, to |-> Min(i + b, n)]>> \o WindowsFrom(i + b, n, b)

\* The handle batchInsertByExec / batchInsertByNamedExec execute on.
BatchInsertHandle(r, useNamedExec) == DirectHandle

\* The handle batchUpdateExec executes on.
BatchUpdateHandle(r) == DirectHandle

\* WindowLog going on to the next window after a statement failed.
WindowLogContinuing(ws, k, st, h) ==
    [i \in 1..Len(ws) |->
        [handle |-> h, status |-> IF i = k + 1 THEN st ELSE "ok",
         from |-> ws[i].from, to |-> ws[i].to]]

\* The statements the window loop executes on handle h when the first k windows
\* of ws succeed and the next, if there is one, ends as st: "return" in the
\* loop leaves the windows after it alone.
WindowLog(ws, k, st, h) ==
    [i \in 1..(IF k < Len(ws) THEN k + 1 ELSE k) |->
        [handle |-> h, status |-> IF i <= k THEN "ok" ELSE st,
         from |-> ws[i].from, to |-> ws[i].to]]

\* fmt.Errorf("batch insert failed at offset %d: %w", i, err)
BatchError(err, i) == err \o "@" \o ToString(i)

\* The window loop of BatchInsert and BatchUpdate over the windows ws on handle
\* h: the windows are executed in order up to the first that fails, and the
\* error names the offset of that window.
WindowLoop(op, r, ws, h) ==
    /\ nStmts + Len(ws) <= MaxStmts
    /\ UNCHANGED <<txLog, optVars>>
    /\ \E k \in 0..Len(ws) :
          \E st \in ExecOutcomes(h) :
             /\ k > 0 => "ok" \in ExecOutcomes(h)
             /\ IF k = Len(ws) THEN st = "ok" \/ k = 0 ELSE st # "ok"
             /\ st = "panic:nilderef" => pc = "idle"
             /\ LET res == IF k = Len(ws) THEN Nil
                           ELSE IF st = "panic:nilderef" THEN st
                           ELSE BatchError(st, ws[k + 1].from)
                IN lastCall' = Call(op, r, res, WindowLog(ws, k, st, h))
             /\ rit' = FnUsed(r)
             /\ Executed(h, k)

\* What BatchInsert answers before it looks at the batch size: nil and nothing
\* to do for an empty slice, and an error for an entity type with no column.
BatchInsertRefusal(n, fieldCount) ==
    IF n > 0 /\ fieldCount = 0 THEN "NoFieldsErr" ELSE Nil

\* The windows of BatchInsert(entities, opt) with n entities of fieldCount
\* columns and opt.BatchSize = configured: none for an empty slice.
InsertWindows(n, configured, fieldCount) ==
    IF n = 0 THEN <<>>
    ELSE WindowsFrom(0, n, EffectiveBatchSize(configured, fieldCount))

\* The windows of BatchInsert(entities, opt) with n entities of EntityFields
\* and opt.BatchSize = b.
BatchInsertWindows(n, b) == InsertWindows(n, b, Len(EntityFields))

\* The window lists of BatchInsert over the entity counts and the batch sizes.
BatchInsertCases ==
    {BatchInsertWindows(n, b) : n \in 0..MaxEntities, b \in BatchSizes}

\* BatchInsert(entities, opt), over the entity counts, the batch sizes and both
\* values of opt.UseNamedExec.  Here and in BatchUpdate opt is an object the
\* caller made for the call; what the calls write to the option object, and the
\* nil option, are in SpecBatch.
BatchInsert ==
    \E r \in repos :
       \E ws \in BatchInsertCases :
          \E h \in {BatchInsertHandle(r, named) : named \in BOOLEAN} :
             WindowLoop("BatchInsert", r, ws, h)

\* The windows of BatchUpdate(entities, opt) with n entities,
\* opt.BatchSize = configured and updateCount names in opt.UpdateFields.
UpdateWindows(n, configured, updateCount) ==
    IF n = 0 THEN <<>>
    ELSE WindowsFrom(0, n, EffectiveBatchSize(configured, updateCount + 1))

\* The windows of BatchUpdate(entities, opt) with n entities, opt.BatchSize = b
\* and no opt.UpdateFields (all of EntityFields are updated).
BatchUpdateWindows(n, b) == UpdateWindows(n, b, Len(EntityFields))

\* BatchUpdateRefusal checking opt.KeyField before the length of the slice.
BatchUpdateRefusalKeyFirst(n, keyField) ==
    IF keyField = "" THEN "KeyFieldErr" ELSE Nil

\* BatchUpdateRefusal without the check of opt.KeyField.
BatchUpdateRefusalNone(n, keyField) == Nil

\* What BatchUpdate answers before it looks at the batch size: nil and nothing
\* to do for an empty slice, and an error for a missing opt.KeyField (also the
\* nil option, which stands for DefaultBatchUpdateOption with no KeyField).
BatchUpdateRefusal(n, keyField) ==
    IF n > 0 /\ keyField = "" THEN "KeyFieldErr" ELSE Nil

\* What BatchUpdate(entities, opt) does with n entities, opt.BatchSize = b and
\* opt.KeyField = key: the error it returns at once, or the windows it runs.
BatchUpdateCase(n, b, key) ==
    IF BatchUpdateRefusal(n, key) # Nil
    THEN [refusal |-> BatchUpdateRefusal(n, key), windows |-> <<>>]
    ELSE [refusal |-> Nil, windows |-> BatchUpdateWindows(n, b)]

BatchUpdateCases ==
    {BatchUpdateCase(n, b, key) :
        n \in 0..MaxEntities, b \in BatchSizes, key \in KeyFields}

\* BatchUpdate(entities, opt), over the entity counts, the batch sizes and the
\* values of opt.KeyField.
BatchUpdate ==
    \E r \in repos :
       \E c \in BatchUpdateCases :
          IF c.refusal # Nil
          THEN /\ lastCall' = Call("BatchUpdate", r, c.refusal, <<>>)
               /\ rit' = FnUsed(r)
               /\ UNCHANGED <<uowTx, dbVars, repos, pc, txLog, optVars>>
          ELSE WindowLoop("BatchUpdate", r, c.windows, BatchUpdateHandle(r))

\* ------------------------------------------------------------- queries
\* The handle a Queryable made by r.Query() executes its terminal operations on.
QueryHandle(r) == DirectHandle

\* r.Query().ToList()
ToList ==
    \E r \in repos :
        LET h == QueryHandle(r)
        IN \/ /\ lastCall' = Call("ToList", r, "SqlErr", <<>>)
              /\ rit' = Forget
              /\ UNCHANGED <<uowTx, dbVars, repos, pc, txLog, optVars>>
           \/ \E st \in ExecOutcomes(h) :
                 /\ st = "panic:nilderef" => pc = "idle"
                 /\ lastCall' =
                       [Call("ToList", r, IF st = "ok" THEN Nil ELSE st,
                             <<[handle |-> h, status |-> st, from |-> 0, to |-> 0]>>)
                          EXCEPT !.seen = IF st = "ok" THEN RowsSeenOn(h) ELSE {}]
                 /\ rit' = Forget
                 /\ UNCHANGED <<uowTx, dbVars, repos, pc, txLog, optVars>>

Next ==
    \/ Begin
    \/ Commit
    \/ Rollback
    \/ RunInTransaction
    \/ FnReturn
    \/ FnPanic
    \/ WithUnitOfWork
    \/ Create
    \/ Update
    \/ UpdateByCondition
    \/ UpdateFieldsByCondition
    \/ BatchCreate
    \/ BatchDelete
    \/ BatchInsert
    \/ BatchUpdate
    \/ ToList

Spec == Init /\ [][Next]_vars

\* ------------------------------------------------------------- two callers
\* Two application threads share the UnitOfWork u.  Each runs the sequence
\* RunInTransaction runs (and an application that calls Begin itself): Begin,
\* then statements through a repository with u attached, then Commit or
\* Rollback.  The threads interleave between calls; u has no lock and no owner.
Callers == {"A", "B"}

\* The transaction caller c has begun and not ended yet, 0 if none.
Mine(c) ==
    IF \E t \in Txs : txLog[t].by = c /\ ~txLog[t].ended
    THEN CHOOSE t \in Txs : txLog[t].by = c /\ ~txLog[t].ended
    ELSE 0

\* c calls u.Begin().
CallerBegin(c) ==
    /\ Mine(c) = 0
    /\ \E ok \in BOOLEAN :
          /\ BeginTx(ok)
          /\ lastCall' = [Call("Begin", NoRepo, BeginResult(ok), <<>>) EXCEPT
                            !.by = c, !.opened = IF ok THEN nextTx + 1 ELSE 0]
          /\ txLog' = IF ok
                      THEN [txLog EXCEPT ![nextTx + 1] = [NoTxLog EXCEPT !.by = c]]
                      ELSE txLog
    /\ UNCHANGED <<repos, pc, rit, optVars>>

\* c, inside its transaction, calls Create on repo.WithUnitOfWork(u).
CallerCreate(c) ==
    /\ Mine(c) # 0
    /\ nStmts < MaxStmts
    /\ \E r \in repos :
          LET h == CreateHandle(WithUow(r, "u"))
          IN \E st \in ExecOutcomes(h) :
                /\ lastCall' = [Call("Create", WithUow(r, "u"),
                                     IF st = "ok" THEN Nil ELSE st,
                                     <<[handle |-> h, status |-> st, from |-> 0, to |-> 1]>>)
                                  EXCEPT !.by = c]
                /\ Executed(h, IF st = "ok" THEN 1 ELSE 0)
    /\ UNCHANGED <<rit, txLog, optVars>>

\* c ends its transaction with u.Commit() or u.Rollback(): the call goes to u.tx.
CallerRetire(c, kind) ==
    /\ Mine(c) # 0
    /\ \E run \in RetireRuns(<<kind>>, txState[uowTx]) :
          /\ ApplyRetires(uowTx, <<kind>>, run)
          /\ lastCall' = [Call(kind, NoRepo, run.res[1], <<>>) EXCEPT
                            !.by = c, !.touched = uowTx]
    /\ txLog' = [t \in Txs |->
                    [txLog[t] EXCEPT
                        !.retires = IF t = uowTx THEN @ + 1 ELSE @,
                        !.ended = IF t = Mine(c) THEN TRUE ELSE @]]
    /\ UNCHANGED <<uowTx, repos, pc, rit, optVars>>

CallerCommit == \E c \in Callers : CallerRetire(c, "Commit")

CallerRollback == \E c \in Callers : CallerRetire(c, "Rollback")

NextCallers ==
    \/ \E c \in Callers : CallerBegin(c)
    \/ \E c \in Callers : CallerCreate(c)
    \/ CallerCommit
    \/ CallerRollback

SpecCallers == Init /\ [][NextCallers]_vars

\* ------------------------------------------------------------- batch statements
\* The batch engine's arithmetic and rendering on their own: each action is one
\* call, with its arguments and what it computed in lastCall; nothing else
\* changes.
planFrame == <<uowTx, nextTx, txState, txWrites, visible, nStmts, repos, pc, rit, txLog, optVars>>

FieldCounts == (1..MaxFieldCount) \cup {5, 10, 20}

Budgets ==
    (0..MaxBudget)
        \cup {10000, ParamBudget, MaxInt \div 80, (MaxInt \div 80) + 1, MaxInt - 4}

ConfiguredSizes == BatchSizes \cup {2, 5000, 20000}

\* Entity counts around the window size b.
EntityCounts(b) == (0..MaxEntities) \cup {b, b + 1, 2 * b, 2 * b + 1}

\* The calls calculateSafeBatchSize(fieldCount, maxParams) with their results.
SafeBatchSizeCalls ==
    {[op |-> "calculateSafeBatchSize",
      fieldCount |-> fieldCount, maxParams |-> maxParams,
      result |-> calculateSafeBatchSize(fieldCount, maxParams)] :
        fieldCount \in FieldCounts, maxParams \in Budgets}

SafeBatchSizeCall ==
    /\ lastCall' \in SafeBatchSizeCalls
    /\ UNCHANGED planFrame

\* The bound parameters of batchInsertByExec's statement: getValues of every
\* entity of the window.
InsertParams(rows, fieldCount) == rows * fieldCount

\* The statements BatchInsert issues when none fails, for n entities of
\* fieldCount columns and opt.BatchSize = configured.
BatchInsertStatements(n, configured, fieldCount) ==
    LET ws == InsertWindows(n, configured, fieldCount)
    IN [i \in 1..Len(ws) |->
           [from |-> ws[i].from, to |-> ws[i].to,
            params |-> InsertParams(ws[i].to - ws[i].from, fieldCount)]]

\* The calls of BatchInsert with the statements each issues.
BatchInsertPlans ==
    UNION {{[op |-> "BatchInsert", n |-> n, fieldCount |-> fieldCount,
             configured |-> configured,
             result |-> BatchInsertRefusal(n, fieldCount),
             stmts |-> BatchInsertStatements(n, configured, fieldCount)] :
               n \in EntityCounts(EffectiveBatchSize(configured, fieldCount))} :
           fieldCount \in FieldCounts, configured \in ConfiguredSizes}

BatchInsertPlan ==
    /\ lastCall' \in BatchInsertPlans
    /\ UNCHANGED planFrame

\* UpdateParams with a key and a value bound per entity for each CASE.
UpdateParamsPerEntity(rows, keys, caseFields, extra) ==
    2 * caseFields * rows + rows + extra

\* The bound parameters of batchUpdateExec's statement for a window of rows
\* entities with keys distinct key values: a key and a value per WHEN of each
\* field that is not the key field, the keys of the IN list, and the arguments
\* of opt.AdditionalWhere.
UpdateParams(rows, keys, caseFields, extra) == 2 * caseFields * keys + rows + extra

\* The statements BatchUpdate issues when none fails, for n entities with
\* distinct keys: opt.KeyField is keyField, opt.UpdateFields has updateCount
\* names, the key field among them or not, and opt.AdditionalWhere has extra
\* arguments.
BatchUpdateStatements(n, configured, keyField, updateCount, keyIsUpdated, extra) ==
    LET ws == IF BatchUpdateRefusal(n, keyField) # Nil THEN <<>>
              ELSE UpdateWindows(n, configured, updateCount)
        caseFields == IF keyIsUpdated THEN updateCount - 1 ELSE updateCount
    IN [i \in 1..Len(ws) |->
           [from |-> ws[i].from, to |-> ws[i].to,
            params |-> UpdateParams(ws[i].to - ws[i].from, ws[i].to - ws[i].from,
                                    caseFields, extra)]]

\* The calls of BatchUpdate with what each returns at once and the statements
\* it issues.
BatchUpdatePlans ==
    UNION {{[op |-> "BatchUpdate", n |-> n, updateCount |-> updateCount,
             configured |-> configured, keyField |-> keyField,
             keyIsUpdated |-> keyIsUpdated, extra |-> extra,
             result |-> BatchUpdateRefusal(n, keyField),
             stmts |-> BatchUpdateStatements(n, configured, keyField,
                                             updateCount, keyIsUpdated, extra)] :
               n \in EntityCounts(EffectiveBatchSize(configured, updateCount + 1)),
               keyField \in KeyFields, keyIsUpdated \in BOOLEAN,
               extra \in 0..MaxExtraArgs} :
           updateCount \in FieldCounts, configured \in ConfiguredSizes}

BatchUpdatePlan ==
    /\ lastCall' \in BatchUpdatePlans
    /\ UNCHANGED planFrame

\* Entities of a type with columns id, status and age.
SampleEntities ==
    {[id |-> 1, status |-> 2, age |-> 26],
     [id |-> 2, status |-> 2, age |-> 29],
     [id |-> 1, status |-> 3, age |-> 29]}

SampleUpdateFields == {<<"status", "age">>, <<"status">>, <<"id", "status", "age">>}

\* The entity slices of 1..n entities.
EntitySlices(n) == UNION {[1..k -> SampleEntities] : k \in 1..n}

\* getFieldValue(entity, fieldName): nil when no column has that name.
getFieldValue(entity, fieldName) ==
    IF fieldName \in DOMAIN entity THEN entity[fieldName] ELSE Nil

\* keyValueMap after the loop over the window: each key value maps to the last
\* entity that has it.
KeyValueMap(entities, keyField) ==
    LET keyOf(i) == getFieldValue(entities[i], keyField)
    IN [k \in {keyOf(i) : i \in DOMAIN entities} |->
           entities[CHOOSE i \in DOMAIN entities :
                        /\ keyOf(i) = k
                        /\ \A j \in DOMAIN entities : keyOf(j) = k => j <= i]]

\* The statement batchUpdateExec renders for a window: a CASE per update field
\* that is not the key field, with a WHEN per entry of keyValueMap (Go iterates
\* the map in no fixed order: the WHENs are given as a set of key / value
\* pairs), and the IN list with a placeholder per entity.
batchUpdateExec(entities, updateFields, keyField) ==
    LET m == KeyValueMap(entities, keyField)
        fields == SelectSeq(updateFields, LAMBDA f : f # keyField)
    IN [setClauses |->
            [i \in 1..Len(fields) |->
                [field |-> fields[i],
                 whens |-> {<<k, getFieldValue(m[k], fields[i])>> : k \in DOMAIN m}]],
        inList |-> [i \in DOMAIN entities |-> getFieldValue(entities[i], keyField)],
        argCount |-> UpdateParams(Len(entities), Cardinality(DOMAIN m), Len(fields), 0)]

\* The calls of batchUpdateExec with key field id, with the statement each
\* renders.
BatchUpdateRenders ==
    {[op |-> "batchUpdateExec", entities |-> entities,
      updateFields |-> updateFields, keyField |-> "id",
      stmt |-> batchUpdateExec(entities, updateFields, "id")] :
        entities \in EntitySlices(MaxEntities), updateFields \in SampleUpdateFields}

BatchUpdateRender ==
    /\ lastCall' \in BatchUpdateRenders
    /\ UNCHANGED planFrame

\* getValues(entity): the values of the columns, in the columns' order.
getValues(entity, fields) == [i \in DOMAIN fields |-> entity[fields[i]]]

\* The statement batchInsertByExec renders for a window of entities with the
\* columns fields: a group of one placeholder per column for each entity, and
\* the values of every entity appended to the arguments.
RECURSIVE AllValues(_, _)
AllValues(entities, fields) ==
    IF Len(entities) = 0 THEN <<>>
    ELSE getValues(Head(entities), fields) \o AllValues(Tail(entities), fields)

batchInsertByExec(entities, fields) ==
    [groups |-> [i \in DOMAIN entities |-> [j \in DOMAIN fields |-> "?"]],
     values |-> AllValues(entities, fields)]

BatchInsertRenders ==
    {[op |-> "batchInsertByExec", entities |-> entities,
      stmt |-> batchInsertByExec(entities, <<"id", "status", "age">>)] :
        entities \in EntitySlices(MaxEntities)}

BatchInsertRender ==
    /\ lastCall' \in BatchInsertRenders
    /\ UNCHANGED planFrame

\* The calls getFieldValue(entity, fieldName), also with names of no column;
\* the one result, an interface{}, is given as it prints.
GetFieldValueCalls ==
    {[op |-> "getFieldValue", entity |-> entity, fieldName |-> fieldName,
      result |-> ToString(getFieldValue(entity, fieldName))] :
        entity \in SampleEntities, fieldName \in {"id", "status", "nick"}}

GetFieldValueCall ==
    /\ lastCall' \in GetFieldValueCalls
    /\ UNCHANGED planFrame

\* BatchUpdate(entities, opt) of a slice that is one window, the statement
\* succeeding: the error returned and the statements issued, each given by the
\* number of its arguments.
BatchUpdateOfWindow(entities, updateFields, keyField) ==
    IF BatchUpdateRefusal(Len(entities), keyField) # Nil
    THEN [result |-> BatchUpdateRefusal(Len(entities), keyField), stmts |-> <<>>]
    ELSE [result |-> Nil,
          stmts |-> <<batchUpdateExec(entities, updateFields, keyField).argCount>>]

\* Calls of BatchUpdate with key fields and update fields that name a column
\* or none.
BatchUpdateWindowCalls ==
    {[op |-> "BatchUpdateWindow", entities |-> entities,
      updateFields |-> updateFields, keyField |-> keyField,
      done |-> BatchUpdateOfWindow(entities, updateFields, keyField)] :
        entities \in EntitySlices(MaxEntities),
        updateFields \in {<<"status">>, <<"status", "nick">>, <<"nick">>},
        keyField \in {"id", "uuid"}}

BatchUpdateWindowCall ==
    /\ lastCall' \in BatchUpdateWindowCalls
    /\ UNCHANGED planFrame

NextPlan ==
    \/ SafeBatchSizeCall
    \/ BatchInsertPlan
    \/ BatchUpdatePlan
    \/ BatchUpdateRender
    \/ BatchInsertRender
    \/ GetFieldValueCall
    \/ BatchUpdateWindowCall

SpecPlan == Init /\ [][NextPlan]_vars

\* ------------------------------------------------------------- batch options
\* BatchInsert and BatchUpdate with the option objects they work on: the
\* caller's own or, for a nil opt, the one the package variable points to.
\* A call is one step up to its window loop, then one step per iteration.  The
\* statements' effect on the database is left to Spec.
mainVars == <<uowTx, nextTx, txState, txWrites, visible, nStmts, repos, pc, rit,
              lastCall, txLog>>

\* Entity types, by their number of columns.
OptionFieldCounts == {1, MaxFieldCount, 20}

OptionSizes == {-1, 0, 1, DefaultBatchSize, 20000}

\* getFields(entity) for a type with fieldCount columns.
getFields(fieldCount) == [k \in 1..fieldCount |-> "c" \o ToString(k)]

\* The option object a running call reads and writes.
BatchOption ==
    IF batch.opt = "own" THEN batch.own
    ELSE IF batch.op = "BatchInsert" THEN DefaultBatchInsertOption
    ELSE DefaultBatchUpdateOption

\* A call of op with n entities of fieldCount columns has run up to its window
\* loop or its return: the option object it was given (the package's default
\* for optKind "nil") had the value given and has the value written now, the
\* call's assignments to opt.BatchSize and opt.UpdateFields being writes
\* through the pointer.
Entered(op, n, fieldCount, optKind, given, written, at, result) ==
    /\ batch' = [op |-> op, at |-> at, n |-> n, fieldCount |-> fieldCount,
                 opt |-> optKind, given |-> given,
                 own |-> IF optKind = "own" THEN written ELSE given,
                 i |-> 0, stmts |-> 0, result |-> result]
    /\ DefaultBatchInsertOption' =
           IF optKind = "nil" /\ op = "BatchInsert" THEN written
           ELSE DefaultBatchInsertOption
    /\ DefaultBatchUpdateOption' =
           IF optKind = "nil" /\ op = "BatchUpdate" THEN written
           ELSE DefaultBatchUpdateOption
    /\ UNCHANGED mainVars

\* The entity counts a call is made with: a few, and around the window size.
OptionEntityCounts(b) == {n \in EntityCounts(b) : n >= 0}

\* The option values a caller passes to BatchInsert.
BatchInsertOptions ==
    {[BatchSize |-> size, UseNamedExec |-> named] :
        size \in OptionSizes, named \in BOOLEAN}

\* The option values a caller passes to BatchUpdate.
BatchUpdateOptions ==
    {[BatchSize |-> size, UpdateFields |-> fields, KeyField |-> key] :
        size \in OptionSizes, fields \in {<<>>, <<"c1">>}, key \in {"", "c1"}}

\* BatchInsert(entities, opt) up to its window loop.
BatchInsertEnter(n, fieldCount, optKind, given) ==
    IF n = 0 \/ BatchInsertRefusal(n, fieldCount) # Nil
    THEN Entered("BatchInsert", n, fieldCount, optKind, given, given,
                 "returned", BatchInsertRefusal(n, fieldCount))
    ELSE Entered("BatchInsert", n, fieldCount, optKind, given,
                 [given EXCEPT !.BatchSize = EffectiveBatchSize(@, fieldCount)],
                 "loop", Nil)

BatchInsertCall ==
    /\ batch.at # "loop"
    /\ \E fieldCount \in OptionFieldCounts :
          \/ \E n \in OptionEntityCounts(
                        EffectiveBatchSize(DefaultBatchInsertOption.BatchSize, fieldCount)) :
                BatchInsertEnter(n, fieldCount, "nil", DefaultBatchInsertOption)
          \/ \E given \in BatchInsertOptions :
                \E n \in OptionEntityCounts(
                             EffectiveBatchSize(given.BatchSize, fieldCount)) :
                   BatchInsertEnter(n, fieldCount, "own", given)

\* opt.UpdateFields after "if len(opt.UpdateFields) == 0 { opt.UpdateFields =
\* r.getFields(entities[0]) }".
UpdateFieldsOf(given, fieldCount) ==
    IF Len(given.UpdateFields) = 0 THEN getFields(fieldCount) ELSE given.UpdateFields

\* BatchUpdate(entities, opt) up to its window loop.
BatchUpdateEnter(n, fieldCount, optKind, given) ==
    LET filled == [given EXCEPT !.UpdateFields = UpdateFieldsOf(given, fieldCount)]
    IN IF n = 0
       THEN Entered("BatchUpdate", n, fieldCount, optKind, given, given,
                    "returned", Nil)
       ELSE IF given.KeyField = ""
       THEN Entered("BatchUpdate", n, fieldCount, optKind, given, filled,
                    "returned", "KeyFieldErr")
       ELSE Entered("BatchUpdate", n, fieldCount, optKind, given,
                    [filled EXCEPT !.BatchSize =
                        EffectiveBatchSize(@, Len(filled.UpdateFields) + 1)],
                    "loop", Nil)

BatchUpdateCall ==
    /\ batch.at # "loop"
    /\ \E fieldCount \in OptionFieldCounts :
          \/ \E n \in 0..MaxEntities :
                BatchUpdateEnter(n, fieldCount, "nil", DefaultBatchUpdateOption)
          \/ \E given \in BatchUpdateOptions :
                \E n \in OptionEntityCounts(
                             EffectiveBatchSize(given.BatchSize,
                                 Len(UpdateFieldsOf(given, fieldCount)) + 1)) :
                   BatchUpdateEnter(n, fieldCount, "own", given)

\* One pass of "for i := 0; i < len(entities); i += opt.BatchSize": the test,
\* then the window entities[i:end], which faults when end < i and for which
\* batchInsertByExec / batchInsertByNamedExec / batchUpdateExec return nil
\* without a statement when it is empty, then the step.
WindowStep ==
    /\ batch.at = "loop"
    /\ LET b == BatchOption.BatchSize
           i == batch.i
           end == Min(i + b, batch.n)
       IN IF i >= batch.n
          THEN batch' = [batch EXCEPT !.at = "returned", !.result = Nil]
          ELSE IF end < i
          THEN batch' = [batch EXCEPT !.at = "panicked",
                                      !.result = "panic:slice bounds out of range"]
          ELSE IF end = i
          THEN batch' = [batch EXCEPT !.i = i + b]
          ELSE \/ batch' = [batch EXCEPT !.i = i + b, !.stmts = @ + 1]
               \/ batch' = [batch EXCEPT !.at = "returned", !.stmts = @ + 1,
                                         !.result = BatchError("ExecErr", i)]
    /\ UNCHANGED <<mainVars, DefaultBatchInsertOption, DefaultBatchUpdateOption>>

NextBatch ==
    \/ BatchInsertCall
    \/ BatchUpdateCall
    \/ WindowStep

SpecBatch == Init /\ [][NextBatch]_vars

\* A call that has begun goes on running.
SpecBatchLive == SpecBatch /\ WF_vars(WindowStep)

\* ------------------------------------------------------------- query builder
\* Each behaviour of SpecQuery is one call on a builder made for it: the call
\* with its arguments and what it returned is in lastCall.
\* A Queryable's expression state: the predicates (each the set of rows it
\* admits), the ordering clauses, the rendered texts of the projection list,
\* the row cap (0: none) and the offset.  A dataset with no projection of its own projects "*".
\* The table is the rows 1..rows, named by their rank in the query's ordering.
Star == <<"*">>

\* r.Query(): dialect.From(table).
NewQuery == [where |-> <<>>, order |-> <<>>, select |-> Star, limit |-> 0, offset |-> 0]

Where(q, condition) == [q EXCEPT !.where = Append(@, condition)]

Skip(q, offset) == [q EXCEPT !.offset = offset]

Take(q, limit) == [q EXCEPT !.limit = limit]

\* q.query.Select(cols...): no columns at all clear the projection.
Select(q, cols) == [q EXCEPT !.select = IF Len(cols) = 0 THEN Star ELSE cols]

\* The text between SELECT and FROM in the SQL of q.
RECURSIVE JoinComma(_)
JoinComma(texts) ==
    IF Len(texts) = 0 THEN ""
    ELSE IF Len(texts) = 1 THEN texts[1]
    ELSE texts[1] \o ", " \o JoinComma(Tail(texts))

SelectText(q) == JoinComma(q.select)

\* getStructDBFields: the db tags of T (identifiers are written without their
\* quotes here).
getStructDBFields == EntityFields

\* ensureSelectFields: the columns are injected when the SQL of q contains
\* "SELECT  FROM", that is when nothing is rendered between SELECT and FROM.
ensureSelectFields(q) ==
    IF SelectText(q) = "" /\ Len(getStructDBFields) > 0
    THEN Select(q, getStructDBFields)
    ELSE q

\* The rows of the table that satisfy every predicate of q, in order.
Matching(q, rows) ==
    SelectSeq([r \in 1..rows |-> r],
              LAMBDA r : \A k \in DOMAIN q.where : r \in q.where[k])

\* OFFSET and LIMIT applied to a result.
Window(result, q) ==
    LET from == q.offset + 1
        to == IF q.limit = 0 THEN Len(result)
              ELSE Min(q.offset + q.limit, Len(result))
    IN SubSeq(result, from, to)

\* db.Get: the first row, sql.ErrNoRows when there is none.
dbGet(result) ==
    IF Len(result) = 0 THEN [err |-> "sql.ErrNoRows", val |-> 0]
    ELSE [err |-> Nil, val |-> result[1]]

\* q.ToList() / q.ToListTx(ctx): the builder as the call leaves it, the
\* statement executed and its rows.
ToListOf(q, rows) ==
    LET stmt == ensureSelectFields(q)
    IN [q |-> stmt, stmt |-> stmt, items |-> Window(Matching(stmt, rows), stmt),
        err |-> Nil]

\* q.Count() / q.CountTx(ctx): SELECT COUNT(*) with everything else of q, the
\* cap and the offset included, which apply to the one row of the aggregate.
CountOf(q, rows) ==
    LET stmt == Select(q, <<"COUNT(*)">>)
        got == dbGet(Window(<<Len(Matching(stmt, rows))>>, stmt))
    IN [stmt |-> stmt, count |-> got.val, err |-> got.err]

\* &PageResult{...}, nil or nil, err.
PageResult(items, total, page, size, err) ==
    IF err # Nil
    THEN [Items |-> <<>>, Total |-> 0, Page |-> 0, PageSize |-> 0, err |-> err]
    ELSE [Items |-> items, Total |-> total, Page |-> page, PageSize |-> size,
          err |-> Nil]

\* q.ToPagedList(page, size, condition): Where, Skip and Take write q, and
\* Count runs on q as they left it.
ToPagedList(q, rows, page, size, condition) ==
    LET listed == ToListOf(Take(Skip(Where(q, condition), (page - 1) * size), size), rows)
        counted == CountOf(listed.q, rows)
    IN PageResult(listed.items, counted.count, page, size,
                  IF listed.err # Nil THEN listed.err ELSE counted.err)

\* q.ToPagedListTx(ctx, page, size, condition): Count after a second
\* Where(condition) on the same q.
ToPagedListTx(q, rows, page, size, condition) ==
    LET listed == ToListOf(Take(Skip(Where(q, condition), (page - 1) * size), size), rows)
        counted == CountOf(Where(listed.q, condition), rows)
    IN PageResult(listed.items, counted.count, page, size,
                  IF listed.err # Nil THEN listed.err ELSE counted.err)

\* Tables and predicates: every predicate over a few rows, and 25 matching
\* rows among 25 and among 30.
PagedTables ==
    {[rows |-> rows, condition |-> condition] :
        rows \in 0..MaxRows, condition \in SUBSET (1..MaxRows)}
      \cup {[rows |-> 25, condition |-> 1..25], [rows |-> 30, condition |-> 1..25]}

\* The calls of ToPagedList and ToPagedListTx on a fresh builder.
ToPagedListCalls ==
    {[op |-> "ToPagedList", rows |-> t.rows, condition |-> t.condition,
      page |-> page, size |-> size,
      result |-> ToPagedList(NewQuery, t.rows, page, size, t.condition)] :
        t \in PagedTables, page \in 1..MaxPage, size \in (1..MaxPageSize) \cup {10}}
      \cup
    {[op |-> "ToPagedListTx", rows |-> t.rows, condition |-> t.condition,
      page |-> page, size |-> size,
      result |-> ToPagedListTx(NewQuery, t.rows, page, size, t.condition)] :
        t \in PagedTables, page \in 1..MaxPage, size \in (1..MaxPageSize) \cup {10}}

ToPagedListCall ==
    /\ lastCall = NoCall
    /\ lastCall' \in ToPagedListCalls
    /\ UNCHANGED planFrame

\* The builders a terminal call is made on: fresh, after Select or SelectRaw of
\* a column, and after SelectRaw("").
ProjectedQueries ==
    {[explicit |-> FALSE, q |-> NewQuery],
     [explicit |-> TRUE, q |-> Select(NewQuery, <<"name">>)],
     [explicit |-> TRUE, q |-> Select(NewQuery, <<"status", "COUNT(*) AS c">>)],
     [explicit |-> TRUE, q |-> Select(NewQuery, <<"">>)]}

\* The terminal calls that return entities, each with the statement it
\* executes: ensureSelectFields, then the SQL of q, with LIMIT 1 for
\* FirstOrDefault.
EntityTerminalOps ==
    {"ToList", "ToListTx", "FirstOrDefault", "FirstOrDefaultTx",
     "ToGroupedList", "ToGroupedListTx"}

EntityTerminal(op, q) ==
    IF op \in {"FirstOrDefault", "FirstOrDefaultTx"}
    THEN Take(ensureSelectFields(q), 1)
    ELSE ensureSelectFields(q)

EntityTerminalCalls ==
    {[op |-> op, explicit |-> p.explicit, q |-> p.q, stmt |-> EntityTerminal(op, p.q)] :
        op \in EntityTerminalOps, p \in ProjectedQueries}

EntityTerminalCall ==
    /\ lastCall = NoCall
    /\ lastCall' \in EntityTerminalCalls
    /\ UNCHANGED planFrame

\* How a terminal operation's statement can fail: the builder cannot render it,
\* the database refuses it, or reading its rows breaks off.
Failures == {"none", "RenderErr", "ExecErr", "RowsErr"}

\* Terminal operations that render with ToSQL, return its error, execute with
\* sqlx's Select or Get and return what that returns.
CheckedOps ==
    {"ToList", "ToListTx", "FirstOrDefault", "Count", "CountTx", "Any", "AnyTx",
     "Sum", "SumTx", "Max", "Min", "ToPagedList", "ToPagedListTx",
     "ToInt64Slice", "ToStringSlice", "ToFloat64Slice", "ToMapSlice", "ToStruct",
     "ToResult", "Scan", "ScanTx", "ScanInt64", "ScanString", "ScanInt", "ScanVal"}

\* ToLookup and ToLookupTx have one result, the map.
LookupOps == {"ToLookup", "ToLookupTx"}

\* Operations that call Queryx and read the rows in a loop of their own, which
\* ends when rows.Next() is false and never asks rows.Err().
RowLoopOps == {"ToMap", "GroupingQuery.Sum", "GroupingQuery.Average"}

\* GroupingQuery.Count hands the three results of ToSQL to Queryx: the argument
\* slice and the error become the statement's two arguments, which the driver
\* cannot convert.
UnrenderedOps == {"GroupingQuery.Count"}

TerminalOps == CheckedOps \cup LookupOps \cup RowLoopOps \cup UnrenderedOps

\* What the caller receives: the value ("rows": what the statement produced,
\* "partial": the rows read before the failure, "nil": the nil or zero value)
\* and the error ("nil": a nil error, "none": the operation returns no error).
TerminalReturn(op, failure) ==
    IF op \in LookupOps
    THEN [value |-> IF failure = "none" THEN "rows" ELSE "nil", err |-> "none"]
    ELSE IF op \in UnrenderedOps
    THEN [value |-> "nil", err |-> "ArgsErr"]
    ELSE IF op \in RowLoopOps /\ failure = "RowsErr"
    THEN [value |-> "partial", err |-> Nil]
    ELSE IF failure = "none"
    THEN [value |-> "rows", err |-> Nil]
    ELSE [value |-> "nil", err |-> failure]

TerminalCalls ==
    {[op |-> "terminal", name |-> name, failure |-> failure,
      result |-> TerminalReturn(name, failure)] :
        name \in TerminalOps, failure \in Failures}

TerminalCall ==
    /\ lastCall = NoCall
    /\ lastCall' \in TerminalCalls
    /\ UNCHANGED planFrame

\* SUM(field) over the rows that match, row r having r in the field: a column
\* that is NULL when there is no row.
RECURSIVE SumOf(_)
SumOf(result) == IF Len(result) = 0 THEN 0 ELSE Head(result) + SumOf(Tail(result))

SqlSum(result) == [null |-> Len(result) = 0, v |-> SumOf(result)]

\* db.Get(&sum, ...) with sum a float64: a NULL cannot be stored in it.
ScanFloat64(column) ==
    IF column.null THEN [sum |-> 0, err |-> "ScanErr"]
    ELSE [sum |-> column.v, err |-> Nil]

\* q.Sum(field): SELECT IFNULL(SUM(field), 0).
Sum(q, rows) ==
    LET column == SqlSum(Matching(q, rows))
    IN ScanFloat64(IF column.null THEN [null |-> FALSE, v |-> 0] ELSE column)

\* q.SumTx(ctx, field): SELECT SUM(field).
SumTx(q, rows) == ScanFloat64(SqlSum(Matching(q, rows)))

SumCalls ==
    {[op |-> "Sum", rows |-> t.rows, condition |-> t.condition,
      matched |-> Len(Matching(Where(NewQuery, t.condition), t.rows)),
      result |-> Sum(Where(NewQuery, t.condition), t.rows)] : t \in PagedTables}
      \cup
    {[op |-> "SumTx", rows |-> t.rows, condition |-> t.condition,
      matched |-> Len(Matching(Where(NewQuery, t.condition), t.rows)),
      result |-> SumTx(Where(NewQuery, t.condition), t.rows)] : t \in PagedTables}

SumCall ==
    /\ lastCall = NoCall
    /\ lastCall' \in SumCalls
    /\ UNCHANGED planFrame

\* An ordering spec is written as a sequence of pieces: a comma, a blank (any
\* white space) or a run of other characters.
SpecWords == {"age", "id", "desc", "Desc", "asc"}

SpecPieces == {",", " "} \cup SpecWords

\* strings.ToUpper of a run of characters.
ToUpper(word) ==
    CASE word = "age" -> "AGE"
      [] word = "id" -> "ID"
      [] word \in {"desc", "Desc"} -> "DESC"
      [] word = "asc" -> "ASC"
      [] OTHER -> word

\* strings.Split(s, sep) for the one-piece separator sep.
RECURSIVE Split(_, _)
Split(s, sep) ==
    IF \A i \in DOMAIN s : s[i] # sep THEN <<s>>
    ELSE LET at == CHOOSE i \in DOMAIN s : s[i] = sep /\ \A j \in 1..(i - 1) : s[j] # sep
         IN <<SubSeq(s, 1, at - 1)>> \o Split(SubSeq(s, at + 1, Len(s)), sep)

\* strings.TrimSpace
RECURSIVE TrimSpace(_)
TrimSpace(s) ==
    IF Len(s) = 0 THEN s
    ELSE IF Head(s) = " " THEN TrimSpace(Tail(s))
    ELSE IF s[Len(s)] = " " THEN TrimSpace(SubSeq(s, 1, Len(s) - 1))
    ELSE s

\* strings.Fields: the runs between white space, none of them empty.
Fields(s) == SelectSeq(Split(s, " "), LAMBDA f : Len(f) > 0)

\* One "col [dir]" part of OrderByRaw with dir compared as written.
OrderPartCaseSensitive(part) ==
    LET fields == Fields(part)
        dir == IF Len(fields) > 1 THEN fields[2] ELSE <<"ASC">>
    IN [col |-> fields[1], desc |-> dir = <<"DESC">>]

\* One "col [dir]" part of OrderByRaw, not blank: the column is the first
\* field, and the direction is DESC when the second field, in upper case, is
\* "DESC".  A field's upper case is that of its pieces.
OrderPart(part) ==
    LET fields == Fields(part)
        dir == IF Len(fields) > 1
               THEN [i \in DOMAIN fields[2] |-> ToUpper(fields[2][i])]
               ELSE <<"ASC">>
    IN [col |-> fields[1], desc |-> dir = <<"DESC">>]

\* q.OrderByRaw(column): with a comma in it the parts between the commas that
\* are not blank, else the whole of it; q.query.Order replaces the ordering.
OrderByRaw(q, column) ==
    IF \E i \in DOMAIN column : column[i] = ","
    THEN LET parts == Split(column, ",")
             kept == SelectSeq([i \in DOMAIN parts |-> TrimSpace(parts[i])],
                               LAMBDA p : Len(p) > 0)
         IN IF Len(kept) > 0
            THEN [q EXCEPT !.order = [i \in DOMAIN kept |-> OrderPart(kept[i])]]
            ELSE q
    ELSE IF Len(TrimSpace(column)) = 0 THEN q
    ELSE [q EXCEPT !.order = <<OrderPart(TrimSpace(column))>>]

\* q.OrderBy(cols...)
OrderBy(q, cols) ==
    [q EXCEPT !.order = [i \in DOMAIN cols |-> [col |-> <<cols[i]>>, desc |-> FALSE]]]

\* The calls of OrderByRaw on a fresh builder and after OrderBy("id"), with the
\* specs of up to MaxSpecLen pieces and "age desc, id asc".
OrderByRawCalls ==
    {[op |-> "OrderByRaw", column |-> column, before |-> q.order,
      after |-> OrderByRaw(q, column).order] :
        q \in {NewQuery, OrderBy(NewQuery, <<"id">>)},
        column \in UNION {[1..k -> SpecPieces] : k \in 0..MaxSpecLen}
                     \cup {<<"age", " ", "desc", ",", " ", "id", " ", "asc">>}}

OrderByRawCall ==
    /\ lastCall = NoCall
    /\ lastCall' \in OrderByRawCalls
    /\ UNCHANGED planFrame

NextQuery ==
    \/ ToPagedListCall
    \/ EntityTerminalCall
    \/ TerminalCall
    \/ SumCall
    \/ OrderByRawCall

SpecQuery == Init /\ [][NextQuery]_vars

\* ------------------------------------------------------------- properties
Returned == lastCall.op = "RunInTransaction"

\* The Commit / Rollback calls RunInTransaction made itself, in order.
OwnRetires ==
    LET i == CHOOSE j \in 0..Len(rit.steps) :
                 /\ j > 0 => rit.steps[j] = "fn"
                 /\ j = 0 => \A k \in 1..Len(rit.steps) : rit.steps[k] # "fn"
    IN IF i = 0 THEN <<>>
       ELSE SelectSeq(SubSeq(rit.steps, i + 1, Len(rit.steps)), IsRetire)

SingleStatementOps ==
    {"Create", "Update", "UpdateByCondition", "UpdateFieldsByCondition",
     "BatchCreate", "BatchDelete"}

BatchOps == {"BatchInsert", "BatchUpdate"}

\* C1: when RunInTransaction returns after a Begin that succeeded, exactly one
\* Commit or Rollback call has reached the handle that Begin created, whatever
\* fn did with the Unit of Work.
C1_RetiredExactlyOnce ==
    (Returned /\ rit.tx # 0) => rit.retired = 1

\* C2: when fn returns an error e, RunInTransaction calls Rollback and not
\* Commit, and returns e if the rollback succeeded and e combined with the
\* rollback error if it failed; it never returns nil.
C2_ErrorRollsBack ==
    (Returned /\ rit.fn = "err") =>
        /\ OwnRetires = <<"Rollback">>
        /\ rit.rollbackRet # "none"
        /\ rit.ret # Nil
        /\ rit.rollbackRet = Nil => rit.ret = rit.val
        /\ rit.rollbackRet # Nil => rit.ret = rit.val \o "+" \o rit.rollbackRet
        /\ lastCall.result = rit.ret

C2_Witness ==
    Returned /\ rit.fn = "err" /\ rit.rollbackRet = "RollbackErr"

\* C3: when fn returns nil, RunInTransaction calls Commit exactly once and no
\* Rollback and returns what Commit returned; when Begin fails, fn is not
\* invoked and the Begin error is returned.
C3_NilCommits ==
    /\ (Returned /\ rit.fn = "nil") =>
          /\ OwnRetires = <<"Commit">>
          /\ rit.commitRet \in {Nil, "CommitErr", "ErrTxDone"}
          /\ rit.ret = rit.commitRet
          /\ lastCall.result = rit.ret
    /\ (Returned /\ rit.tx = 0) =>
          /\ rit.fn = "none"
          /\ rit.steps = <<"Begin", "return">>
          /\ rit.ret = "BeginErr"
          /\ lastCall.result = "BeginErr"
    /\ pc = "fn" => rit.tx # 0 /\ txState[rit.tx] # "unused"

C3_Witness ==
    Returned /\ rit.fn = "nil" /\ rit.ret = "CommitErr"

\* C4: when fn panics, RunInTransaction rolls back the Unit of Work's
\* transaction before the panic goes on to its caller, never commits, and the
\* caller gets the same panic value, not a returned error.
C4_PanicRollsBack ==
    (Returned /\ rit.fn = "panic") =>
        /\ rit.steps = <<"Begin", "fn", "Rollback", "panic">>
        /\ txState[uowTx] = "done"
        /\ rit.panicOut = rit.val
        /\ rit.ret = "none"
        /\ lastCall.result = "panic:" \o rit.val

C4_Witness ==
    Returned /\ rit.fn = "panic" /\ rit.rollbackRet = Nil /\ rit.val = "boom"

\* C5: for an fn that only calls mutation methods of repositories with the
\* Unit of Work attached: if fn returned an error none of the statements it
\* executed is visible after RunInTransaction, and if fn returned nil and the
\* commit succeeded all of them are.
C5_FnWritesAtomic ==
    (Returned /\ rit.tx # 0 /\ rit.plain) =>
        /\ rit.fn = "err" => FnWrites \cap visible = {}
        /\ (rit.fn = "nil" /\ rit.ret = Nil) => FnWrites \subseteq visible

\* C6: Create, Update, UpdateByCondition, UpdateFieldsByCondition, BatchCreate
\* and BatchDelete execute their statement on the Unit of Work's transaction
\* handle when the repository has one attached and on the direct handle when
\* it has none.
C6_SingleStatementRouting ==
    lastCall.op \in SingleStatementOps =>
        \A i \in DOMAIN lastCall.stmts :
            lastCall.stmts[i].handle =
                IF Attached(lastCall.repo) THEN TxHandle(uowTx) ELSE DirectHandle

C6_Witness ==
    /\ lastCall.op = "BatchCreate"
    /\ Attached(lastCall.repo)
    /\ lastCall.stmts # <<>>
    /\ lastCall.stmts[1].status = "ok"
    /\ lastCall.stmts[1].handle.kind = "tx"

\* C7: every window statement of BatchInsert and BatchUpdate on a repository
\* with a Unit of Work attached is executed on the Unit of Work's transaction
\* handle, never on the direct handle (stated for a Unit of Work whose
\* transaction is open).
C7_BatchWindowRouting ==
    (lastCall.op \in BatchOps /\ Attached(lastCall.repo)
        /\ lastCall.phase = "Open") =>
        \A i \in DOMAIN lastCall.stmts :
            lastCall.stmts[i].handle = TxHandle(uowTx)

\* C8: a terminal operation of a Queryable made by Query() on a repository with
\* a Unit of Work attached is executed on the Unit of Work's transaction handle
\* and sees the transaction's own uncommitted statements (stated for a Unit
\* of Work whose transaction is open).
C8_QueryRouting ==
    (lastCall.op = "ToList" /\ Attached(lastCall.repo)
        /\ lastCall.phase = "Open") =>
        \A i \in DOMAIN lastCall.stmts :
            /\ lastCall.stmts[i].handle = TxHandle(uowTx)
            /\ lastCall.stmts[i].status = "ok" =>
                   txWrites[uowTx] \subseteq lastCall.seen

\* C9: a Begin, Commit or Rollback on a Unit of Work that is Closed (also the
\* Begin of a second RunInTransaction) returns an error, opens no transaction
\* and reaches no transaction handle.  The error is to be an
\* InvalidStateError; the code has no error kinds, and any error is let pass
\* here.
C9_ClosedIsTerminal ==
    (lastCall.op \in {"Begin", "Commit", "Rollback"} /\ lastCall.phase = "Closed") =>
        /\ lastCall.result \notin {Nil, "panic:nilderef"}
        /\ lastCall.opened = 0
        /\ lastCall.touched = 0

\* C10: a Commit, a Rollback, or a mutation through an attached repository, on
\* a Unit of Work on which Begin has not succeeded returns an error to the
\* caller: no runtime fault, and nothing executed on the direct handle.  The
\* error is to be an InvalidStateError; the code has no error kinds, and any
\* returned error is let pass here.
C10_UnattachedIsError ==
    (/\ lastCall.phase = "Unattached"
     /\ \/ lastCall.op \in {"Commit", "Rollback"}
        \/ lastCall.op \in SingleStatementOps \cup BatchOps
               /\ Attached(lastCall.repo)) =>
        /\ lastCall.result \notin {Nil, "panic:nilderef"}
        /\ \A i \in DOMAIN lastCall.stmts : lastCall.stmts[i].handle.kind # "db"

\* C11: every transaction that has been begun and is not yet committed or
\* rolled back is the handle GetTx returns: a Begin on a Unit of Work whose
\* transaction is open does not replace the open handle.
C11_NoOpenTxOrphaned ==
    \A t \in Txs : txState[t] = "open" => GetTx = t

\* C12: when two callers interleave on the same UnitOfWork, no Commit, Rollback
\* or statement of one caller is applied to the transaction the other began,
\* and a transaction whose caller has ended it has got exactly one Commit or
\* Rollback call (and no transaction ever gets more than one).
C12_CallersIsolated ==
    /\ (lastCall.op \in {"Commit", "Rollback"} /\ lastCall.touched # 0) =>
           txLog[lastCall.touched].by = lastCall.by
    /\ lastCall.op = "Create" =>
           \A i \in DOMAIN lastCall.stmts :
               lastCall.stmts[i].handle.kind = "tx" =>
                   txLog[lastCall.stmts[i].handle.tx].by = lastCall.by
    /\ \A t \in Txs :
           /\ txLog[t].retires <= 1
           /\ txLog[t].ended => txLog[t].retires = 1

MutationOps == SingleStatementOps \cup BatchOps

\* C13: WithUnitOfWork returns a new repository with the receiver's database
\* handle, table, dialect and dialect type and with the Unit of Work attached,
\* and does not write the receiver: whatever WithUnitOfWork calls were made,
\* the repository NewRepository returned is still held with no Unit of Work
\* attached, and every statement of its mutation methods goes to the direct
\* handle.
C13_WithUnitOfWorkFrame ==
    /\ \E r \in repos :
          /\ r = NewRepository("test_table", "mysql")
          /\ r.uow = "nil"
    /\ lastCall.op = "WithUnitOfWork" =>
          /\ lastCall.repo \in repos
          /\ \E n \in repos :
                /\ n.db = lastCall.repo.db
                /\ n.table = lastCall.repo.table
                /\ n.dialect = lastCall.repo.dialect
                /\ n.dbType = lastCall.repo.dbType
                /\ n.uow = "u"
    /\ (lastCall.op \in MutationOps /\ lastCall.repo.uow = "nil") =>
          \A i \in DOMAIN lastCall.stmts :
              lastCall.stmts[i].handle = DirectHandle

C13_Witness ==
    /\ \E n \in repos : n.uow = "u"
    /\ lastCall.op = "Update"
    /\ lastCall.repo = NewRepository("test_table", "mysql")
    /\ lastCall.stmts # <<>>
    /\ lastCall.stmts[1].status = "ok"
    /\ lastCall.stmts[1].handle = DirectHandle
    /\ UowPhase = "Open"

\* floor((budget * 0.8) / fieldCount) in exact arithmetic: floor(0.8 * budget)
\* is budget - ceil(budget / 5), and flooring before the second division
\* loses nothing.
ExactSafeSize(fieldCount, budget) ==
    (budget - ((budget + 4) \div 5)) \div fieldCount

SafeSizeExamples ==
    /\ (lastCall.fieldCount = 10 /\ lastCall.maxParams = 16384) => lastCall.result = 1310
    /\ (lastCall.fieldCount = 20 /\ lastCall.maxParams = 16384) => lastCall.result = 655
    /\ (lastCall.fieldCount = 5 /\ lastCall.maxParams = 10000) => lastCall.result = 1600

\* C14 as stated: for every fieldCount >= 1 and budget >= 0,
\* calculateSafeBatchSize(fieldCount, budget) is floor((budget * 0.8) / fieldCount)
\* exactly, and (10,16384) gives 1310, (20,16384) gives 655, (5,10000) gives 1600.
C14_SafeSizeExactForEveryBudget ==
    lastCall.op = "calculateSafeBatchSize" =>
        /\ lastCall.result = ExactSafeSize(lastCall.fieldCount, lastCall.maxParams)
        /\ SafeSizeExamples

\* C14 amended: the same, for every budget whose product with 80 is in the
\* range of int (budget <= MaxInt / 80).
C14_SafeSizeExactInRange ==
    (lastCall.op = "calculateSafeBatchSize" /\ lastCall.maxParams <= MaxInt \div 80) =>
        /\ lastCall.result = ExactSafeSize(lastCall.fieldCount, lastCall.maxParams)
        /\ SafeSizeExamples

C14_Witness ==
    /\ lastCall.op = "calculateSafeBatchSize"
    /\ lastCall.fieldCount = 20
    /\ lastCall.maxParams = 16384
    /\ lastCall.result = 655

\* C15: no statement BatchUpdate issues, whatever the number of update fields,
\* the configured batch size and the window, binds more parameters than the
\* budget of 16384 its safe batch size is computed from.
C15_UpdateParamsWithinBudget ==
    lastCall.op = "BatchUpdate" =>
        \A i \in DOMAIN lastCall.stmts : lastCall.stmts[i].params <= ParamBudget

\* C16: every statement BatchInsert issues, for any positive configured batch
\* size and any number f >= 1 of columns, binds at most floor(16384 * 0.8) =
\* 13107 parameters (the rows of its window times f).
C16_InsertParamsWithinSafeBudget ==
    lastCall.op = "BatchInsert" =>
        \A i \in DOMAIN lastCall.stmts :
            /\ lastCall.stmts[i].params =
                   (lastCall.stmts[i].to - lastCall.stmts[i].from) * lastCall.fieldCount
            /\ lastCall.stmts[i].params <= 13107

C16_Witness ==
    /\ lastCall.op = "BatchInsert"
    /\ lastCall.configured = 20000
    /\ \E i \in DOMAIN lastCall.stmts : lastCall.stmts[i].params = 13107

\* C17: BatchInsert of n >= 1 entities with effective batch size
\* b = min(configured, safe size) >= 1 issues ceil(n / b) statements when none
\* fails; the windows start at 0, each starts where the one before ends, the
\* last ends at n, every window but the last has b rows and the last between 1
\* and b; for n = 2b + 1 there are 3 statements and the last covers 1 row.
C17_InsertWindowsPartition ==
    (lastCall.op = "BatchInsert" /\ lastCall.n >= 1) =>
        LET b == Min(lastCall.configured,
                     ExactSafeSize(lastCall.fieldCount, ParamBudget))
            ws == lastCall.stmts
            k == Len(ws)
        IN /\ b >= 1
           /\ k = (lastCall.n + b - 1) \div b
           /\ ws[1].from = 0
           /\ ws[k].to = lastCall.n
           /\ \A i \in 1..(k - 1) :
                 /\ ws[i + 1].from = ws[i].to
                 /\ ws[i].to - ws[i].from = b
           /\ ws[k].to - ws[k].from >= 1
           /\ ws[k].to - ws[k].from <= b
           /\ lastCall.n = 2 * b + 1 => (k = 3 /\ ws[3].to - ws[3].from = 1)

C17_Witness ==
    /\ lastCall.op = "BatchInsert"
    /\ lastCall.fieldCount = 3
    /\ lastCall.configured = 5000
    /\ lastCall.n = 2 * 4369 + 1
    /\ Len(lastCall.stmts) = 3
    /\ lastCall.stmts[3].from = 8738

\* C19: the statement batchUpdateExec renders for a window has, for each update
\* field other than the key field, a CASE with exactly one WHEN per entity of
\* the window, pairing that entity's key with that entity's value of the field,
\* and an IN list with one placeholder per entity; for the entities
\* {id:1,status:2,age:26}, {id:2,status:2,age:29} with key id and fields status,
\* age: two WHENs per field and two placeholders.
C19_OneWhenPerEntity ==
    lastCall.op = "batchUpdateExec" =>
        LET es == lastCall.entities
            st == lastCall.stmt
            fields == SelectSeq(lastCall.updateFields,
                                LAMBDA f : f # lastCall.keyField)
        IN /\ Len(st.setClauses) = Len(fields)
           /\ \A i \in DOMAIN st.setClauses :
                 /\ st.setClauses[i].field = fields[i]
                 /\ Cardinality(st.setClauses[i].whens) = Len(es)
                 /\ \A j \in DOMAIN es :
                       <<es[j][lastCall.keyField], es[j][fields[i]]>>
                           \in st.setClauses[i].whens
           /\ Len(st.inList) = Len(es)

\* C18: BatchInsert and BatchUpdate execute their windows in input order and
\* stop at the first window whose statement fails: the statements executed are
\* the windows from offset 0 on, each starting where the one before ends, all
\* but the failing one succeeded, none follows the failing one, and the error
\* returned wraps the statement's error and names the offset of the failing
\* window's first entity.
C18_StopsAtFirstFailure ==
    (lastCall.op \in BatchOps /\ lastCall.result # "KeyFieldErr") =>
        LET log == lastCall.stmts
            k == Len(log)
        IN /\ k > 0 => log[1].from = 0
           /\ \A i \in 1..(k - 1) :
                 /\ log[i].status = "ok"
                 /\ log[i + 1].from = log[i].to
           /\ lastCall.result = Nil =>
                 \A i \in 1..k : log[i].status = "ok"
           /\ lastCall.result # Nil =>
                 /\ k >= 1
                 /\ log[k].status = "ExecErr"
                 /\ lastCall.result = "ExecErr" \o "@" \o ToString(log[k].from)

C18_Witness ==
    /\ lastCall.op = "BatchUpdate"
    /\ Len(lastCall.stmts) = 2
    /\ lastCall.stmts[1].status = "ok"
    /\ lastCall.stmts[2].status = "ExecErr"
    /\ lastCall.result = "ExecErr@1"

\* C20: BatchUpdate of a non-empty entity slice with no key field (an empty
\* opt.KeyField, also the nil / default option) returns the configuration
\* error and issues no statement.
C20_NoKeyFieldIsRefused ==
    (lastCall.op = "BatchUpdate" /\ lastCall.n >= 1 /\ lastCall.keyField = "") =>
        /\ lastCall.result = "KeyFieldErr"
        /\ lastCall.stmts = <<>>

C20_Witness ==
    /\ lastCall.op = "BatchUpdate"
    /\ lastCall.n = 2
    /\ lastCall.keyField = ""
    /\ lastCall.configured = DefaultBatchSize
    /\ lastCall.result = "KeyFieldErr"

\* C21: BatchInsert and BatchUpdate of an empty entity slice return nil and
\* issue no statement, whatever the option: any batch size (1000 is also what
\* the nil option stands for) and, for BatchUpdate, also no key field.
C21_EmptyInputIsNoOp ==
    (lastCall.op \in {"BatchInsert", "BatchUpdate"} /\ lastCall.n = 0) =>
        /\ lastCall.result = Nil
        /\ lastCall.stmts = <<>>

C21_Witness ==
    /\ lastCall.op = "BatchUpdate"
    /\ lastCall.n = 0
    /\ lastCall.keyField = ""
    /\ lastCall.configured = DefaultBatchSize
    /\ lastCall.result = Nil
    /\ lastCall.stmts = <<>>

\* C22: BatchInsert and BatchUpdate write neither the option object they are
\* given nor the package's defaults: after any calls DefaultBatchInsertOption
\* is {BatchSize: 1000, UseNamedExec: false} and DefaultBatchUpdateOption is
\* {BatchSize: 1000} with no update fields, the caller's object has the value
\* it was given, and the window loop of a call runs with min(configured, safe
\* size), the configured size of the nil option being 1000.
C22_OptionsAreNotWritten ==
    /\ DefaultBatchInsertOption = [BatchSize |-> 1000, UseNamedExec |-> FALSE]
    /\ DefaultBatchUpdateOption =
           [BatchSize |-> 1000, UpdateFields |-> <<>>, KeyField |-> ""]
    /\ batch.opt = "own" => batch.own = batch.given
    /\ (batch.at = "loop" /\ batch.op = "BatchInsert") =>
           BatchOption.BatchSize =
               Min(IF batch.opt = "nil" THEN 1000 ELSE batch.given.BatchSize,
                   ExactSafeSize(batch.fieldCount, ParamBudget))

\* C29: BatchInsert and BatchUpdate of a non-empty slice end, whatever the
\* option, a BatchSize of zero or below included: the window loop never faults
\* on a window bound and a call whose loop runs returns.
C29_BatchCallsTerminate ==
    /\ [](batch.at # "panicked")
    /\ (batch.at = "loop") ~> (batch.at = "returned")

\* C23: on a fresh builder, for page >= 1, size >= 1 and a predicate matching N
\* rows, ToPagedList (and ToPagedListTx) returns no error, Total = N and as
\* Items the rows (page-1)*size+1 .. min(page*size, N) of the matching rows in
\* the query's order; page 2 of size 10 over 25 matching rows is the 11th to
\* the 20th row with Total = 25.
C23_PageOfMatchingRows ==
    lastCall.op \in {"ToPagedList", "ToPagedListTx"} =>
        LET matching == SelectSeq([r \in 1..lastCall.rows |-> r],
                                  LAMBDA r : r \in lastCall.condition)
            first == (lastCall.page - 1) * lastCall.size + 1
            last == Min(lastCall.page * lastCall.size, Len(matching))
        IN /\ lastCall.result.err = Nil
           /\ lastCall.result.Total = Len(matching)
           /\ lastCall.result.Items = SubSeq(matching, first, last)

\* C24: a terminal call that returns entities (ToList, FirstOrDefault,
\* ToGroupedList and their context variants) on a builder without Select or
\* SelectRaw executes a statement whose projection is the entity type's
\* persisted columns in order, never "*"; after Select / SelectRaw the
\* projection is the one that was set.
C24_AutoProjection ==
    lastCall.op \in EntityTerminalOps =>
        IF lastCall.explicit
        THEN lastCall.stmt.select = lastCall.q.select
        ELSE lastCall.stmt.select = EntityFields

\* C25: no terminal operation suppresses an error: when its statement cannot
\* be rendered or fails in execution, the caller gets a non-nil error that is
\* (or wraps) that failure.
C25_NoErrorSuppressed ==
    (lastCall.op = "terminal" /\ lastCall.failure # "none") =>
        lastCall.result.err = lastCall.failure

\* C26: Sum(field) and SumTx(ctx, field) return 0 and no error when no row
\* matches.
C26_SumOfNoRowsIsZero ==
    (lastCall.op \in {"Sum", "SumTx"} /\ lastCall.matched = 0) =>
        lastCall.result = [sum |-> 0, err |-> Nil]

\* C27: OrderByRaw(spec) makes one ordering clause of each part between commas
\* that is not blank, in the parts' order: on the part's first token,
\* descending exactly when its second token is DESC in any case, ascending
\* otherwise, also without a second token; "age desc, id asc" gives age
\* descending, id ascending; a spec with no such part leaves the ordering as it
\* was.
C27_OrderByRawParses ==
    lastCall.op = "OrderByRaw" =>
        LET c == lastCall.column
            IsWord(i) == c[i] \notin {",", " "}
            SegOf(i) == Cardinality({j \in 1..(i - 1) : c[j] = ","})
            NonBlank == {SegOf(i) : i \in {j \in DOMAIN c : IsWord(j)}}
            \* the end of the run of word pieces that starts at i
            RunEnd(i) == CHOOSE e \in i..Len(c) :
                            /\ \A j \in i..e : IsWord(j)
                            /\ e = Len(c) \/ ~IsWord(e + 1)
            First(k) == CHOOSE i \in DOMAIN c :
                            /\ IsWord(i) /\ SegOf(i) = k
                            /\ \A j \in 1..(i - 1) : ~(IsWord(j) /\ SegOf(j) = k)
            Later(k) == {i \in (RunEnd(First(k)) + 1)..Len(c) :
                            IsWord(i) /\ SegOf(i) = k}
            Second(k) == CHOOSE i \in Later(k) : \A j \in Later(k) : i <= j
            Clause(k) ==
                [col |-> SubSeq(c, First(k), RunEnd(First(k))),
                 desc |-> /\ Later(k) # {}
                          /\ RunEnd(Second(k)) = Second(k)
                          /\ c[Second(k)] \in {"desc", "Desc"}]
            Nth(n) == CHOOSE k \in NonBlank :
                          Cardinality({j \in NonBlank : j <= k}) = n
        IN /\ NonBlank = {} => lastCall.after = lastCall.before
           /\ NonBlank # {} =>
                 lastCall.after = [n \in 1..Cardinality(NonBlank) |-> Clause(Nth(n))]
           /\ c = <<"age", " ", "desc", ",", " ", "id", " ", "asc">> =>
                 lastCall.after = <<[col |-> <<"age">>, desc |-> TRUE],
                                    [col |-> <<"id">>, desc |-> FALSE]>>

C27_Witness ==
    /\ lastCall.op = "OrderByRaw"
    /\ lastCall.column = <<"age", " ", "desc", ",", " ", "id", " ", "asc">>
    /\ lastCall.before = <<>>
    /\ lastCall.after = <<[col |-> <<"age">>, desc |-> TRUE],
                          [col |-> <<"id">>, desc |-> FALSE]>>

\* C28: the value of a named field of an entity whose type has no persisted
\* field of that name is a SchemaError; so BatchUpdate with a KeyField or an
\* UpdateFields entry that names no persisted field returns an error and
\* issues no statement.
C28_UnknownFieldIsSchemaError ==
    /\ (lastCall.op = "getFieldValue" /\ lastCall.fieldName \notin DOMAIN lastCall.entity)
          => lastCall.result = "SchemaError"
    /\ (/\ lastCall.op = "BatchUpdateWindow"
        /\ \E f \in {lastCall.keyField} \cup
                      {lastCall.updateFields[i] : i \in DOMAIN lastCall.updateFields} :
              \E i \in DOMAIN lastCall.entities : f \notin DOMAIN lastCall.entities[i])
          => /\ lastCall.done.result # Nil
             /\ lastCall.done.stmts = <<>>

\* C30: in every statement batchInsertByExec and batchUpdateExec build, the
\* placeholders of the SQL text (one per column in each entity's group; two
\* per WHEN and one per entry of the IN list) are as many as the arguments
\* bound with it, also when entities of the window share a key value and when
\* the key field is among the update fields.
C30_PlaceholdersMatchArguments ==
    /\ lastCall.op = "batchInsertByExec" =>
          SumOf([i \in DOMAIN lastCall.stmt.groups |-> Len(lastCall.stmt.groups[i])])
              = Len(lastCall.stmt.values)
    /\ lastCall.op = "batchUpdateExec" =>
          SumOf([i \in DOMAIN lastCall.stmt.setClauses |->
                    2 * Cardinality(lastCall.stmt.setClauses[i].whens)])
              + Len(lastCall.stmt.inList)
              = lastCall.stmt.argCount

C30_Witness ==
    /\ lastCall.op = "batchUpdateExec"
    /\ lastCall.updateFields = <<"id", "status", "age">>
    /\ Len(lastCall.entities) = 2
    /\ lastCall.entities[1].id = lastCall.entities[2].id
    /\ lastCall.entities[1].status # lastCall.entities[2].status
    /\ lastCall.stmt.argCount = 6

====
